---- MODULE Spec2Model ----
(***************************************************************************)
(* Model of dgmc/models/dgmc.py: the DGMC module (deep graph matching      *)
(* consensus), its constructor and its forward pass in the dense variant   *)
(* (k < 1) and in the sparse variant (k >= 1).                             *)
(*                                                                         *)
(* Numbers.  A tensor element is a record [k, n, d]: k = "fin" is the      *)
(* rational n/d in lowest terms (d > 0), and k = "nan", "pinf", "ninf" are *)
(* the IEEE special values, which the code creates on purpose              *)
(* (fill_value = +inf / -inf) and which multiply and add by the IEEE       *)
(* rules.  Finite arithmetic is exact: rounding and overflow of finite     *)
(* floats are outside the model.  Logits are counted in units of ln 2, so  *)
(* exp(x) of the code is 2^x here and softmax stays rational; every logit  *)
(* of the model is an integer.                                             *)
(*                                                                         *)
(* Indices.  Tensors are sequences (1-based); graph ids in batch vectors   *)
(* and candidate indices in S_idx keep the code's 0-based values.          *)
(***************************************************************************)
EXTENDS Integers, Sequences, FiniteSets, TLC

\* ------------------------------------------------------------------ bounds

\* num_steps ranges over 0..MaxSteps.
MaxSteps == 2

\* In the sparse variant k ranges over 1..MaxK, below, at and above the
\* node counts of the batches.
MaxK == 2

\* Declared channel widths of psi_1 and psi_2 range over 1..MaxWidth in
\* the specification that explores construction.
MaxWidth == 2

\* ------------------------------------------------------------- arithmetic

RECURSIVE GCD(_, _)
GCD(a, b) == IF b = 0 THEN a ELSE GCD(b, a % b)

Abs(n) == IF n < 0 THEN -n ELSE n

NaN == [k |-> "nan", n |-> 0, d |-> 1]
PInf == [k |-> "pinf", n |-> 0, d |-> 1]
NInf == [k |-> "ninf", n |-> 0, d |-> 1]

\* The finite number n/d (d > 0), in lowest terms.
Rat(n, d) ==
    LET g == GCD(Abs(n), d)
    IN  [k |-> "fin", n |-> n \div g, d |-> d \div g]

Fin(n) == [k |-> "fin", n |-> n, d |-> 1]

IsFinite(a) == a.k = "fin"

\* -1, 0, 1 for a value that is not NaN.
Sgn(a) ==
    CASE a.k = "pinf" -> 1
      [] a.k = "ninf" -> -1
      [] OTHER -> IF a.n > 0 THEN 1 ELSE IF a.n < 0 THEN -1 ELSE 0

FNeg(a) ==
    CASE a.k = "nan" -> NaN
      [] a.k = "pinf" -> NInf
      [] a.k = "ninf" -> PInf
      [] OTHER -> Rat(-a.n, a.d)

\* IEEE product: inf * 0 = NaN, otherwise the sign rule.
FMul(a, b) ==
    IF a.k = "nan" \/ b.k = "nan" THEN NaN
    ELSE IF a.k = "fin" /\ b.k = "fin" THEN Rat(a.n * b.n, a.d * b.d)
    ELSE IF Sgn(a) * Sgn(b) = 0 THEN NaN
    ELSE IF Sgn(a) * Sgn(b) > 0 THEN PInf ELSE NInf

\* IEEE sum: inf + (-inf) = NaN.
FAdd(a, b) ==
    IF a.k = "nan" \/ b.k = "nan" THEN NaN
    ELSE IF a.k = "fin" /\ b.k = "fin"
         THEN Rat(a.n * b.d + b.n * a.d, a.d * b.d)
    ELSE IF a.k = "fin" THEN b
    ELSE IF b.k = "fin" THEN a
    ELSE IF a.k = b.k THEN a ELSE NaN

FSub(a, b) == FAdd(a, FNeg(b))

RECURSIVE FSum(_)
FSum(s) == IF s = <<>> THEN Fin(0) ELSE FAdd(Head(s), FSum(Tail(s)))

RECURSIVE IntSum(_)
IntSum(s) == IF s = <<>> THEN 0 ELSE Head(s) + IntSum(Tail(s))

RECURSIVE Pow2(_)
Pow2(e) == IF e = 0 THEN 1 ELSE 2 * Pow2(e - 1)

SetMax(S) == CHOOSE m \in S : \A x \in S : x <= m
SetMin(S) == CHOOSE m \in S : \A x \in S : m <= x

\* ------------------------------------------------------------ tensor ops

\* t itself.  The comparison makes the model checker evaluate the tensor
\* once, instead of once per element read.
Eager(t) == IF t = t THEN t ELSE t

\* torch.softmax over one row.  The kernel subtracts the row maximum
\* before exponentiating: a NaN or a +inf in the row, or a row of -inf
\* only, makes the shifted values NaN and with them the whole row;
\* otherwise exp(-inf) = 0 and the finite entries share the mass.
\* The weights are taken relative to the smallest finite logit, which
\* keeps them integers and gives the same quotients.
softmax(row) ==
    IF row = <<>> THEN <<>>
    ELSE IF \/ \E j \in DOMAIN row : row[j].k \in {"nan", "pinf"}
            \/ \A j \in DOMAIN row : row[j].k = "ninf"
    THEN [j \in DOMAIN row |-> NaN]
    ELSE LET lo == SetMin({row[j].n : j \in {i \in DOMAIN row : row[i].k = "fin"}})
             w == [j \in DOMAIN row |->
                     IF row[j].k = "fin" THEN Pow2(row[j].n - lo) ELSE 0]
             den == IntSum(w)
         IN  [j \in DOMAIN row |-> Rat(w[j], den)]

\* Tensor.masked_fill(sel, value) on a (B x N x M) tensor.
masked_fill(src, sel, value) ==
    [b \in DOMAIN src |-> [i \in DOMAIN src[b] |-> [j \in DOMAIN src[b][i] |->
        IF sel[b][i][j] THEN value ELSE src[b][i][j]]]]

\* ~mask
Inv(mask) ==
    [b \in DOMAIN mask |-> [i \in DOMAIN mask[b] |-> [j \in DOMAIN mask[b][i] |->
        ~mask[b][i][j]]]]

\* softmax along the last axis of a (B x N x M) tensor.
softmax_last(src) ==
    [b \in DOMAIN src |-> [i \in DOMAIN src[b] |-> softmax(src[b][i])]]

\* Mutant of masked_softmax: line 11, the second zeroing pass, is missing.
masked_softmax_no_rezero(src, mask) ==
    softmax_last(masked_fill(src, Inv(mask), NInf))

\* Mutant of masked_softmax: line 9, the fill with -inf, is missing.
masked_softmax_no_neginf(src, mask) ==
    masked_fill(softmax_last(src), Inv(mask), Fin(0))

\* Lines 8-12.
masked_softmax(src, mask) ==
    LET out1 == Eager(masked_fill(src, Inv(mask), NInf))
        out2 == Eager(softmax_last(out1))
    IN  Eager(masked_fill(out2, Inv(mask), Fin(0)))

RECURSIVE Flatten(_)
Flatten(ss) == IF ss = <<>> THEN <<>> ELSE Head(ss) \o Flatten(Tail(ss))

SelectMask(xs, ms) ==
    LET keep == {p \in DOMAIN xs : ms[p]}
        pos(q) == CHOOSE p \in keep : Cardinality({r \in keep : r < p}) = q - 1
    IN  [q \in 1..Cardinality(keep) |-> xs[pos(q)]]

\* x[mask]: the rows of a (B x N x W) tensor at the TRUE positions of a
\* (B x N) mask, in row-major order.
to_sparse(x, mask) == SelectMask(Flatten(x), Flatten(mask))

\* The inverse: a zero tensor of mask's shape (x W), with the rows of x
\* written at the TRUE positions of mask in row-major order.
to_dense(x, mask) ==
    LET W == IF x = <<>> THEN 0 ELSE Len(x[1])
        N == IF mask = <<>> THEN 0 ELSE Len(mask[1])
        rank(b, i) == Cardinality({q \in 1..((b - 1) * N + i) :
                          mask[((q - 1) \div N) + 1][((q - 1) % N) + 1]})
    IN  [b \in DOMAIN mask |-> [i \in DOMAIN mask[b] |->
            IF mask[b][i] THEN x[rank(b, i)] ELSE [c \in 1..W |-> Fin(0)]]]

\* torch_geometric.utils.to_dense_batch(x, batch, fill_value): batch holds
\* the graph id of every node, sorted; the result is a (B x N_max x W)
\* tensor, padded with fill_value, and its (B x N_max) validity mask.
to_dense_batch(x, batch, fill_value) ==
    LET B == SetMax({batch[p] : p \in DOMAIN batch}) + 1
        num(b) == Cardinality({p \in DOMAIN batch : batch[p] = b})
        N == SetMax({num(b) : b \in 0..(B - 1)})
        off(b) == Cardinality({p \in DOMAIN batch : batch[p] < b})
        W == Len(x[1])
    IN  [x |-> [b \in 1..B |-> [i \in 1..N |->
                  IF i <= num(b - 1) THEN x[off(b - 1) + i]
                  ELSE [c \in 1..W |-> fill_value]]],
         mask |-> [b \in 1..B |-> [i \in 1..N |-> i <= num(b - 1)]]]

\* h_s @ h_t.transpose(-1, -2): batched matrix product, (B x N x W) by
\* (B x M x W) to (B x N x M).
matmul_t(a, c) ==
    [b \in DOMAIN a |-> [i \in DOMAIN a[b] |-> [j \in DOMAIN c[b] |->
        FSum([w \in DOMAIN a[b][i] |-> FMul(a[b][i][w], c[b][j][w])])]]]

\* S.transpose(-1, -2) @ r_s: (B x N x M) and (B x N x R) to (B x M x R).
transpose_matmul(S, r) ==
    [b \in DOMAIN S |-> [j \in 1..(IF S[b] = <<>> THEN 0 ELSE Len(S[b][1])) |->
        [c \in 1..Len(r[b][1]) |->
            FSum([i \in DOMAIN S[b] |-> FMul(S[b][i][j], r[b][i][c])])]]]

\* h_s_mask.unsqueeze(-1) & h_t_mask.unsqueeze(-2)
outer_and(ms, mt) ==
    [b \in DOMAIN ms |-> [i \in DOMAIN ms[b] |-> [j \in DOMAIN mt[b] |->
        ms[b][i] /\ mt[b][j]]]]

tensor_add(a, c) ==
    [b \in DOMAIN a |-> [i \in DOMAIN a[b] |-> [j \in DOMAIN a[b][i] |->
        FAdd(a[b][i][j], c[b][i][j])]]]

\* ------------------------------------------- the supplied functions

\* The neighbours of node v: the sources of the edges that end in v.
Nbrs(E, v) == {e[1] : e \in {f \in E : f[2] = v}}

RECURSIVE SumOver(_, _)
SumOver(f, S) ==
    IF S = {} THEN 0
    ELSE LET v == CHOOSE u \in S : TRUE IN f[v] + SumOver(f, S \ {v})

\* The first-stage embedding function, a caller-supplied message-passing
\* function with out_channels declared: odd channels carry the node's
\* own feature, even channels the sum over its neighbours.
psi_1(p, x, edge_index) ==
    LET own == [v \in DOMAIN x |-> x[v][1]]
    IN  [v \in DOMAIN x |-> [c \in 1..p.out_channels |->
            IF c % 2 = 1 THEN Fin(own[v])
            ELSE Fin(SumOver(own, Nbrs(edge_index, v)))]]

\* The second-stage embedding function (in_channels -> out_channels), a
\* caller-supplied message-passing function with a sign activation on its
\* input: odd channels carry the node's own activation, even channels the
\* sum over its neighbours.
psi_2(p, r, edge_index) ==
    LET act == [v \in DOMAIN r |-> IntSum([c \in DOMAIN r[v] |-> Sgn(r[v][c])])]
    IN  [v \in DOMAIN r |-> [c \in 1..p.out_channels |->
            IF c % 2 = 1 THEN Fin(act[v])
            ELSE Fin(SumOver(act, Nbrs(edge_index, v)))]]

\* The parameter values reset() may leave in the scorer: the first layer
\* is w1 * I with bias b1, the second layer has every weight w2 and bias
\* b2.  The first one is a scorer whose output is zero everywhere.
MlpParams ==
    { [w1 |-> 1, b1 |-> 0, w2 |-> 0, b2 |-> 0],
      [w1 |-> 1, b1 |-> 0, w2 |-> 1, b2 |-> 0],
      [w1 |-> -1, b1 |-> 1, w2 |-> 1, b2 |-> -1] }

ReLU(n) == IF n > 0 THEN n ELSE 0

\* Seq(Lin(w, w), ReLU(), Lin(w, 1)) applied to one difference vector
\* (integer entries), squeezed to a scalar.
mlp(m, dvec) ==
    LET z == [c \in DOMAIN dvec |-> ReLU(m.theta.w1 * dvec[c].n + m.theta.b1)]
    IN  Fin(m.theta.w2 * IntSum(z) + m.theta.b2)

\* --------------------------------------------------------------- inputs

\* A graph: node features (one number per node) and directed edges.
\* edge_attr is None throughout.
Graph(x, e) == [x |-> x, e |-> e]

Both(u, v) == {<<u, v>>, <<v, u>>}

SrcGraphs ==
    { Graph(<<1>>, {}), Graph(<<-1, 1>>, Both(1, 2)), Graph(<<0, -1>>, {}) }

TgtGraphs ==
    { Graph(<<1>>, {}), Graph(<<1, -1>>, Both(1, 2)), Graph(<<0, 1>>, {}) }

GraphPairs == [s : SrcGraphs, t : TgtGraphs]

\* Batches of one or two graph pairs.
Batches == {<<p>> : p \in GraphPairs}
             \cup {<<p, q>> : p \in GraphPairs, q \in GraphPairs}

\* Batches of one small pair.
SmallBatches ==
    {<<p>> : p \in [s : {Graph(<<-1, 1>>, Both(1, 2))},
                    t : {Graph(<<1>>, {}), Graph(<<1, -1>>, Both(1, 2))}]}

RECURSIVE CollateSide(_, _, _)
\* The flat tensors of one side of a batch: node features stacked, the
\* graph id of every node, and the edges renumbered to the stacked nodes.
CollateSide(gs, b, off) ==
    IF gs = <<>> THEN [x |-> <<>>, batch |-> <<>>, edge_index |-> {}]
    ELSE LET g == Head(gs)
             rest == CollateSide(Tail(gs), b + 1, off + Len(g.x))
         IN  [x |-> [v \in DOMAIN g.x |-> <<g.x[v]>>] \o rest.x,
              batch |-> [v \in DOMAIN g.x |-> b] \o rest.batch,
              edge_index |-> {<<e[1] + off, e[2] + off>> : e \in g.e}
                               \cup rest.edge_index]

\* The arguments of forward for a batch of graph pairs.
Collate(pairs) ==
    LET s == CollateSide([q \in DOMAIN pairs |-> pairs[q].s], 0, 0)
        t == CollateSide([q \in DOMAIN pairs |-> pairs[q].t], 0, 0)
    IN  [x_s |-> s.x, edge_index_s |-> s.edge_index, batch_s |-> s.batch,
         x_t |-> t.x, edge_index_t |-> t.edge_index, batch_t |-> t.batch]

\* One side's graph b (0-based) of a flat batch, as a batch of its own.
SoloSide(x, edge_index, batch, b) ==
    LET own == {p \in DOMAIN batch : batch[p] = b}
        off == Cardinality({p \in DOMAIN batch : batch[p] < b})
    IN  [x |-> [v \in 1..Cardinality(own) |-> x[off + v]],
         batch |-> [v \in 1..Cardinality(own) |-> 0],
         edge_index |-> {<<e[1] - off, e[2] - off>> :
                           e \in {f \in edge_index : f[1] \in own /\ f[2] \in own}}]

\* The arguments of forward for graph pair b alone.
SoloInput(inp, b) ==
    LET s == SoloSide(inp.x_s, inp.edge_index_s, inp.batch_s, b)
        t == SoloSide(inp.x_t, inp.edge_index_t, inp.batch_t, b)
    IN  [x_s |-> s.x, edge_index_s |-> s.edge_index, batch_s |-> s.batch,
         x_t |-> t.x, edge_index_t |-> t.edge_index, batch_t |-> t.batch]

\* The values torch.randn draws from.
RandVals == {-1, 1}

\* ---------------------------------------------------------------- state

VARIABLES
    pc,          \* "new", "constructed", "dense_loop", "sparse_loop",
                 \* "done", "error_mlp" (mlp(D) raised on a width),
                 \* "error_gather" (lines 93-94 raised on a shape or index)
    ctor,        \* the arguments of DGMC(psi_1, psi_2, num_steps, k, detach)
    self,        \* the module's fields
    mlp_call,    \* self.mlp as the forward call in progress found it
    inp,         \* the arguments of the forward call in progress
    h_s, h_t,    \* padded first-stage embeddings
    h_s_mask, h_t_mask,
    S_hat, S_mask, S_0, S_L, S_idx,
    it,          \* iterations of the refinement loop completed
    n_randn,     \* calls of torch.randn made by the forward call
    n_psi_2,     \* calls of psi_2 made by the forward call
    S_hat_init,  \* S_hat and S_mask as line 67-68 left them
    S_mask_init,
    S_idx_top_k, \* what the top_k call of line 90 returned
    solo         \* for each graph pair of the batch, the same forward call
                 \* on that pair alone, drawing the same random features
                 \* for its source nodes

vars == <<pc, ctor, self, mlp_call, inp, h_s, h_t, h_s_mask, h_t_mask, S_hat, S_mask,
          S_0, S_L, S_idx, it, n_randn, n_psi_2, S_hat_init, S_mask_init,
          S_idx_top_k, solo>>

fwd == <<mlp_call, inp, h_s, h_t, h_s_mask, h_t_mask, S_hat, S_mask, S_0, S_L, S_idx,
         it, n_randn, n_psi_2, S_hat_init, S_mask_init, S_idx_top_k, solo>>

NoTheta == [w1 |-> 0, b1 |-> 0, w2 |-> 0, b2 |-> 0]

NoSelf ==
    [psi_1 |-> [out_channels |-> 0],
     psi_2 |-> [in_channels |-> 0, out_channels |-> 0],
     num_steps |-> 0, k |-> 0, detach |-> FALSE,
     mlp |-> [in_features |-> 0, hidden |-> 0, theta |-> NoTheta]]

NoInput ==
    [x_s |-> <<>>, edge_index_s |-> {}, batch_s |-> <<>>,
     x_t |-> <<>>, edge_index_t |-> {}, batch_t |-> <<>>]

\* The constructor's arguments, with the declared widths in Widths,
\* num_steps in Steps, k in Ks and detach in Dets.
CtorArgs(Widths, Steps, Ks, Dets) ==
    [psi_1 : [out_channels : Widths],
     psi_2 : [in_channels : Widths, out_channels : Widths],
     num_steps : Steps, k : Ks, detach : Dets]

InitWith(Widths, Steps, Ks, Dets) ==
    /\ pc = "new"
    /\ ctor \in CtorArgs(Widths, Steps, Ks, Dets)
    /\ self = NoSelf
    /\ mlp_call = NoSelf.mlp
    /\ inp = NoInput
    /\ h_s = <<>> /\ h_t = <<>> /\ h_s_mask = <<>> /\ h_t_mask = <<>>
    /\ S_hat = <<>> /\ S_mask = <<>> /\ S_0 = <<>> /\ S_L = <<>>
    /\ S_idx = <<>>
    /\ it = 0 /\ n_randn = 0 /\ n_psi_2 = 0
    /\ S_hat_init = <<>> /\ S_mask_init = <<>> /\ S_idx_top_k = <<>>
    /\ solo = <<>>

\* --------------------------------------------------------- DGMC.__init__

\* Mutant of NewMlp: the scorer is sized from psi_2.in_channels.
NewMlpFromIn(p2, theta) ==
    [in_features |-> p2.in_channels, hidden |-> p2.in_channels, theta |-> theta]

\* Seq(Lin(psi_2.out_channels, psi_2.out_channels), ReLU(),
\*     Lin(psi_2.out_channels, 1))
NewMlp(p2, theta) ==
    [in_features |-> p2.out_channels, hidden |-> p2.out_channels, theta |-> theta]

\* Lines 43-46: the module after reset_parameters() drew theta for the
\* scorer.  psi_1 and psi_2 are reset too; their state is not part of
\* the module's fields here.
ResetTo(me, theta) == [me EXCEPT !.mlp.theta = theta]

\* The constructor stores its arguments, builds the scorer from
\* psi_2.out_channels and resets the parameters (line 41).  It reads no
\* other width and raises nothing.
DGMC_init ==
    /\ pc = "new"
    /\ \E theta \in MlpParams :
          self' = ResetTo([psi_1 |-> ctor.psi_1, psi_2 |-> ctor.psi_2,
                           num_steps |-> ctor.num_steps, k |-> ctor.k,
                           detach |-> ctor.detach,
                           mlp |-> NewMlp(ctor.psi_2, NoTheta)], theta)
    /\ pc' = "constructed"
    /\ UNCHANGED <<ctor, fwd>>

\* A call of the public method reset_parameters() on a constructed
\* module, before a forward call or after one returned or raised: the
\* scorer's parameters are drawn again, nothing else changes.
reset_parameters ==
    /\ pc \in {"constructed", "done", "error_mlp", "error_gather"}
    /\ \E theta \in MlpParams : self' = ResetTo(self, theta)
    /\ UNCHANGED <<pc, ctor, fwd>>

\* ---------------------------------------------------------- DGMC.forward

\* Tensor.detach(): the same values, cut from the autograd graph.
Detach(h, flag) == h

\* Lines 56-63: both sides embedded by psi_1 and padded, the source side
\* with +inf and the target side with -inf.
Embed(me, in) ==
    LET e_s == Eager(Detach(psi_1(me.psi_1, in.x_s, in.edge_index_s), me.detach))
        e_t == Eager(Detach(psi_1(me.psi_1, in.x_t, in.edge_index_t), me.detach))
        d_s == Eager(to_dense_batch(e_s, in.batch_s, PInf))
        d_t == Eager(to_dense_batch(e_t, in.batch_t, NInf))
    IN  [h_s |-> d_s.x, h_s_mask |-> d_s.mask,
         h_t |-> d_t.x, h_t_mask |-> d_t.mask]

\* Lines 67-69.
DenseInit(e) ==
    LET hat == Eager(matmul_t(e.h_s, e.h_t))
        mask == Eager(outer_and(e.h_s_mask, e.h_t_mask))
    IN  [S_hat |-> hat, S_mask |-> mask, S_0 |-> masked_softmax(hat, mask)]

\* Mutant of Update: the mask is applied to the sum, not to the update.
UpdateMaskAfter(hat, upd, mask) ==
    masked_fill(tensor_add(hat, upd), Inv(mask), Fin(0))

\* Mutant of Update: the update replaces S_hat instead of adding to it.
UpdateReplace(hat, upd, mask) ==
    masked_fill(upd, Inv(mask), Fin(0))

\* Line 83: S_hat + mlp(D).squeeze(-1).masked_fill(~S_mask, 0)
Update(hat, upd, mask) ==
    tensor_add(hat, masked_fill(upd, Inv(mask), Fin(0)))

\* Lines 73-83: one refinement step on S_hat with the random features r_s.
RefineOnce(me, in, m_s, m_t, mask, hat, r_s) ==
    LET S == masked_softmax(hat, mask)
        r_t == Eager(transpose_matmul(S, r_s))
        o_s == Eager(psi_2(me.psi_2, Eager(to_sparse(r_s, m_s)), in.edge_index_s))
        o_t == Eager(psi_2(me.psi_2, Eager(to_sparse(r_t, m_t)), in.edge_index_t))
        od_s == Eager(to_dense(o_s, m_s))
        od_t == Eager(to_dense(o_t, m_t))
        D == Eager([b \in DOMAIN od_s |-> [i \in DOMAIN od_s[b] |->
                [j \in DOMAIN od_t[b] |-> [c \in DOMAIN od_s[b][i] |->
                    FSub(od_s[b][i][c], od_t[b][j][c])]]]])
        upd == Eager([b \in DOMAIN D |-> [i \in DOMAIN D[b] |->
                  [j \in DOMAIN D[b][i] |-> mlp(me.mlp, D[b][i][j])]]])
    IN  Update(hat, upd, mask)

\* torch.randn(rnd_size): a (B x N_s_max x psi_2.in_channels) tensor.
RandTensors(B, N, R) == [1..B -> [1..N -> [1..R -> {Fin(v) : v \in RandVals}]]]

\* Mutant of LoopContinues: the loop runs once more than num_steps.
LoopContinuesOnceMore(i, n) == i <= n

\* for _ in range(num_steps)
LoopContinues(i, n) == i < n

\* The forward call on graph pair b (1-based) alone, up to line 69.
SoloInit(me, in, b) ==
    LET e == Embed(me, SoloInput(in, b - 1))
        d == DenseInit(e)
    IN  [h_s_mask |-> e.h_s_mask, h_t_mask |-> e.h_t_mask,
         S_mask |-> d.S_mask, S_hat |-> d.S_hat, S_0 |-> d.S_0, S_L |-> <<>>]

\* The number of nodes of graph b (0-based) in a batch vector.
NumNodes(batch, b) == Cardinality({p \in DOMAIN batch : batch[p] = b})

\* The rows of r_s that belong to the source nodes of graph pair b.
SoloRand(r_s, in, b) ==
    <<[i \in 1..NumNodes(in.batch_s, b - 1) |-> r_s[b][i]]>>

\* Dense variant, lines 56-71.
forward_dense(Inputs) ==
    /\ pc = "constructed"
    /\ self.k < 1
    /\ \E batch \in Inputs :
          LET in == Collate(batch)
              e == Embed(self, in)
              d == DenseInit(e)
          IN  /\ inp' = in
              /\ h_s' = e.h_s /\ h_t' = e.h_t
              /\ h_s_mask' = e.h_s_mask /\ h_t_mask' = e.h_t_mask
              /\ S_hat' = d.S_hat /\ S_mask' = d.S_mask /\ S_0' = d.S_0
              /\ S_hat_init' = d.S_hat /\ S_mask_init' = d.S_mask
              /\ solo' = [b \in DOMAIN batch |-> SoloInit(self, in, b)]
    /\ mlp_call' = self.mlp
    /\ it' = 0 /\ n_randn' = 0 /\ n_psi_2' = 0
    /\ pc' = "dense_loop"
    /\ UNCHANGED <<ctor, self, S_L, S_idx, S_idx_top_k>>

\* One iteration of the loop of lines 72-83.  psi_2 returns out_channels
\* channels and the scorer's first layer takes in_features: the call
\* mlp(D) raises when they differ.
dense_step ==
    /\ pc = "dense_loop"
    /\ LoopContinues(it, self.num_steps)
    /\ IF self.psi_2.out_channels # self.mlp.in_features
       THEN /\ pc' = "error_mlp"
            /\ n_randn' = n_randn + 1 /\ n_psi_2' = n_psi_2 + 2
            /\ UNCHANGED <<S_hat, solo, it>>
       ELSE /\ \E r_s \in RandTensors(Len(h_s), Len(h_s[1]), self.psi_2.in_channels) :
                /\ S_hat' = RefineOnce(self, inp, h_s_mask, h_t_mask, S_mask, S_hat, r_s)
                /\ solo' = [b \in DOMAIN solo |->
                     [solo[b] EXCEPT !.S_hat =
                        RefineOnce(self, SoloInput(inp, b - 1), solo[b].h_s_mask,
                                   solo[b].h_t_mask, solo[b].S_mask, solo[b].S_hat,
                                   SoloRand(r_s, inp, b))]]
            /\ it' = it + 1
            /\ n_randn' = n_randn + 1 /\ n_psi_2' = n_psi_2 + 2
            /\ pc' = pc
    /\ UNCHANGED <<ctor, self, mlp_call, inp, h_s, h_t, h_s_mask, h_t_mask,
                   S_mask, S_0, S_L, S_idx, S_hat_init, S_mask_init,
                   S_idx_top_k>>

\* Lines 85-87.
dense_return ==
    /\ pc = "dense_loop"
    /\ ~LoopContinues(it, self.num_steps)
    /\ S_L' = masked_softmax(S_hat, S_mask)
    /\ solo' = [b \in DOMAIN solo |->
          [solo[b] EXCEPT !.S_L = masked_softmax(solo[b].S_hat, solo[b].S_mask)]]
    /\ pc' = "done"
    /\ UNCHANGED <<ctor, self, mlp_call, inp, h_s, h_t, h_s_mask, h_t_mask,
                   S_hat, S_mask, S_0, S_idx, it, n_randn, n_psi_2, S_hat_init,
                   S_mask_init, S_idx_top_k>>

\* a <= b for two values that are not NaN.
Le(a, b) ==
    \/ a.k = "ninf"
    \/ b.k = "pinf"
    \/ a.k = "fin" /\ b.k = "fin" /\ a.n * b.d <= b.n * a.d

\* LazyTensor.argKmin(k) over the scores of one reduced axis: the
\* (0-based) positions of the k smallest scores, smallest first.  The
\* order among equal scores is not fixed, and neither is the place of a
\* NaN, which compares false with everything.  When k exceeds the number
\* of scores, the slots after the last score hold positions the source
\* does not determine.
ArgKmin(k, col) ==
    LET N == Len(col)
        m == IF k < N THEN k ELSE N
        cands == [1..k -> 0..(N - 1)]
    IN  IF \E i \in 1..N : col[i].k = "nan" THEN cands
        ELSE {c \in cands :
                /\ \A a, b \in 1..m : a < b =>
                      c[a] # c[b] /\ Le(col[c[a] + 1], col[c[b] + 1])
                /\ \A i \in 0..(N - 1) :
                      (\A a \in 1..m : c[a] # i) => Le(col[c[m] + 1], col[i + 1])}

\* Lines 48-52: S_ij = (-x_s * x_t).sum(-1) over the padded tensors, as a
\* lazy tensor with one batch dimension, i the source and j the target
\* axis.  argKmin(k, dim=1) names the reduction axis counted after the
\* batch dimension from 0, so it reduces over dim - 1 = 0, the source
\* axis i: for every target column j, the k source rows of smallest
\* S_ij, a (B x N_t_max x k) tensor.  The set of tensors the call can
\* return.
top_k(me, x_s, x_t) ==
    LET S_ij == [b \in DOMAIN x_s |-> [i \in DOMAIN x_s[b] |->
                   [j \in DOMAIN x_t[b] |->
                      FSum([w \in DOMAIN x_s[b][i] |->
                              FMul(FNeg(x_s[b][i][w]), x_t[b][j][w])])]]]
        N == Len(x_s[1])
    IN  {idx \in [DOMAIN x_t -> [DOMAIN x_t[1] -> [1..me.k -> 0..(N - 1)]]] :
            \A b \in DOMAIN x_t : \A j \in DOMAIN x_t[b] :
                idx[b][j] \in ArgKmin(me.k, [i \in DOMAIN x_s[b] |-> S_ij[b][i][j]])}

\* Lines 91-94 run without raising.  tmp_t is (B x N_s x N_t x C) and
\* index is (B x N_t x k x C): torch.gather(tmp_t, 2, index) needs
\* index.size(1) <= tmp_t.size(1) and every index below tmp_t.size(2),
\* and tmp_s * (the gathered B x N_t x k x C tensor) needs the second
\* sizes N_s and N_t to broadcast.
GatherOK(x_s, x_t, idx) ==
    LET N_s == Len(x_s[1])
        N_t == Len(x_t[1])
    IN  /\ N_t <= N_s
        /\ \A b \in DOMAIN idx : \A a \in DOMAIN idx[b] : \A j \in DOMAIN idx[b][a] :
              idx[b][a][j] < N_t
        /\ N_t = N_s \/ N_t = 1 \/ N_s = 1

\* The row of S_idx that source row i is multiplied with on line 94: its
\* own, or the only one when N_t_max = 1 broadcasts.
CandRow(idx, b, i) == IF Len(idx[b]) = 1 THEN 1 ELSE i

\* Lines 91-94: row a of the gathered tensor holds the target embeddings
\* h_t[idx[a][j]], and is multiplied with source row a (every source row
\* when it is the only one) and summed over the channels.
GatherScores(x_s, x_t, idx) ==
    [b \in DOMAIN x_s |-> [i \in DOMAIN x_s[b] |->
        [j \in DOMAIN idx[b][CandRow(idx, b, i)] |->
            FSum([w \in DOMAIN x_s[b][i] |->
                    FMul(x_s[b][i][w],
                         x_t[b][idx[b][CandRow(idx, b, i)][j] + 1][w])])]]]

\* Sparse variant, lines 56-63 and 90-95, for every k >= 1.
forward_sparse(Inputs) ==
    /\ pc = "constructed"
    /\ self.k >= 1
    /\ \E batch \in Inputs :
          LET in == Collate(batch)
              e == Embed(self, in)
          IN  /\ \E idx \in top_k(self, e.h_s, e.h_t) :
                    /\ S_idx' = idx /\ S_idx_top_k' = idx
                    /\ IF GatherOK(e.h_s, e.h_t, idx)
                       THEN LET hat == GatherScores(e.h_s, e.h_t, idx)
                            IN  /\ S_hat' = hat
                                /\ S_0' = softmax_last(hat)
                                /\ pc' = "sparse_loop"
                       ELSE /\ S_hat' = <<>> /\ S_0' = <<>>
                            /\ pc' = "error_gather"
              /\ inp' = in
              /\ h_s' = e.h_s /\ h_t' = e.h_t
              /\ h_s_mask' = e.h_s_mask /\ h_t_mask' = e.h_t_mask
    /\ mlp_call' = self.mlp
    /\ it' = 0 /\ n_randn' = 0 /\ n_psi_2' = 0
    /\ UNCHANGED <<ctor, self, S_mask, S_L, S_hat_init, S_mask_init, solo>>

\* Lines 97-98: the loop body is `pass`.
sparse_step ==
    /\ pc = "sparse_loop"
    /\ LoopContinues(it, self.num_steps)
    /\ it' = it + 1
    /\ UNCHANGED <<pc, ctor, self, mlp_call, inp, h_s, h_t, h_s_mask, h_t_mask,
                   S_hat, S_mask, S_0, S_L, S_idx, n_randn, n_psi_2,
                   S_hat_init, S_mask_init, S_idx_top_k, solo>>

\* Mutant of SparseResult: the logits are returned in place of S_0.
SparseResultLogits(s0) == S_hat

\* Line 100: S_L = S_0
SparseResult(s0) == s0

\* Lines 100-102.
sparse_return ==
    /\ pc = "sparse_loop"
    /\ ~LoopContinues(it, self.num_steps)
    /\ S_L' = SparseResult(S_0)
    /\ pc' = "done"
    /\ UNCHANGED <<ctor, self, mlp_call, inp, h_s, h_t, h_s_mask, h_t_mask,
                   S_hat, S_mask, S_0, S_idx, it, n_randn, n_psi_2, S_hat_init,
                   S_mask_init, S_idx_top_k, solo>>

\* ------------------------------------------------------- specifications

\* The dense variant (k = -1, the default) on batches of one or two graph
\* pairs.
InitDense == InitWith({1}, 0..MaxSteps, {-1}, {FALSE})
NextDense ==
    \/ DGMC_init
    \/ reset_parameters
    \/ forward_dense(Batches)
    \/ dense_step
    \/ dense_return
SpecDense == InitDense /\ [][NextDense]_vars

\* The sparse variant on batches of one or two graph pairs.
InitSparse == InitWith({1}, 0..MaxSteps, 1..MaxK, {FALSE})
NextSparse ==
    \/ DGMC_init
    \/ reset_parameters
    \/ forward_sparse(Batches)
    \/ sparse_step
    \/ sparse_return
SpecSparse == InitSparse /\ [][NextSparse]_vars

\* Construction with every combination of declared widths, followed by a
\* forward call of either variant (k = 0 and k = 1, the two sides of the
\* test k < 1) on a small batch.
InitWidths == InitWith(1..MaxWidth, {0, 1}, {0, 1}, BOOLEAN)
NextWidths ==
    \/ DGMC_init
    \/ reset_parameters
    \/ forward_dense(SmallBatches)
    \/ dense_step
    \/ dense_return
    \/ forward_sparse(SmallBatches)
    \/ sparse_step
    \/ sparse_return
SpecWidths == InitWidths /\ [][NextWidths]_vars

\* --------------------------------------------------------------- claims

Dense == self.k < 1
Sparse == self.k >= 1

Cells(S) == {<<b, i, j>> \in (DOMAIN S) \X (DOMAIN S[1]) \X (DOMAIN S[1][1]) : TRUE}

ValidCell(b, i, j) == h_s_mask[b][i] /\ h_t_mask[b][j]

\* Some source row and some target column of the batch are padding.
HasPadding ==
    /\ \E b \in DOMAIN h_s_mask : \E i \in DOMAIN h_s_mask[b] : ~h_s_mask[b][i]
    /\ \E b \in DOMAIN h_t_mask : \E j \in DOMAIN h_t_mask[b] : ~h_t_mask[b][j]

\* Every valid row of S sums to 1 over the valid target columns, and S is
\* exactly 0 at every invalid cell.
RowStochastic(S) ==
    /\ \A c \in Cells(S) : ~ValidCell(c[1], c[2], c[3]) => S[c[1]][c[2]][c[3]] = Fin(0)
    /\ \A b \in DOMAIN S : \A i \in DOMAIN S[b] :
          h_s_mask[b][i] =>
             FSum([j \in DOMAIN S[b][i] |->
                     IF h_t_mask[b][j] THEN S[b][i][j] ELSE Fin(0)]) = Fin(1)

AllFinite(S) ==
    \A b \in DOMAIN S : \A i \in DOMAIN S[b] : \A j \in DOMAIN S[b][i] :
        IsFinite(S[b][i][j])

\* Every finite logit is an integer (softmax exponentiates integers only).
LogitsAreIntegers ==
    \A b \in DOMAIN S_hat : \A i \in DOMAIN S_hat[b] : \A j \in DOMAIN S_hat[b][i] :
        S_hat[b][i][j].d = 1

\* C1: in dense mode, for every batch and every num_steps, S_0 and S_L
\* are row-stochastic over the valid cells: every valid source row sums
\* to 1 over the valid target columns of its graph, and every invalid
\* cell is exactly 0.
C1_DenseOutputsRowStochastic ==
    /\ (Dense /\ pc \in {"dense_loop", "done"}) => RowStochastic(S_0)
    /\ (Dense /\ pc = "done") => RowStochastic(S_L)

\* A dense call that refined a batch with padding on both sides.
C1_Witness ==
    /\ Dense /\ pc = "done" /\ it >= 1
    /\ HasPadding
    /\ S_L # S_0

\* C2: no NaN and no Inf appears in any output of forward, dense or
\* sparse, also for batches of graphs of unequal node counts.
C2_OutputsFinite ==
    pc = "done" => AllFinite(S_0) /\ AllFinite(S_L)

\* The dense half of C2, which the code keeps.
DenseOutputsFinite ==
    (Dense /\ pc = "done") => AllFinite(S_0) /\ AllFinite(S_L)

\* C3: in sparse mode every entry of S_idx a forward call returns is the
\* index of a real (non-padding) target node of its batch element.
C3_CandidatesAreRealTargets ==
    (Sparse /\ pc \in {"sparse_loop", "done"}) =>
        \A b \in DOMAIN S_idx : \A a \in DOMAIN S_idx[b] : \A j \in DOMAIN S_idx[b][a] :
            S_idx[b][a][j] \in 0..(NumNodes(inp.batch_t, b - 1) - 1)

\* C4: in sparse mode the loop runs exactly num_steps iterations and
\* changes nothing: S_idx stays what top_k returned, S_hat and S_0 stay
\* what lines 94-95 computed from it, nothing is drawn or re-embedded, and
\* the returned S_L is S_0.
C4_SparseLoopIsNoOp ==
    (Sparse /\ pc \in {"sparse_loop", "done"}) =>
        /\ S_idx = S_idx_top_k
        /\ S_hat = GatherScores(h_s, h_t, S_idx_top_k)
        /\ S_0 = softmax_last(S_hat)
        /\ n_randn = 0 /\ n_psi_2 = 0
        /\ it <= self.num_steps
        /\ pc = "done" => (it = self.num_steps /\ S_L = S_0)

\* A sparse call that returned after two iterations of the loop.
C4_Witness ==
    /\ Sparse /\ pc = "done" /\ it = 2
    /\ self.k = 2

\* C5: in dense mode with num_steps = 0 no refinement step is performed
\* (no random draw, no call of psi_2, no update of S_hat) and S_L = S_0.
C5_ZeroStepsNoRefinement ==
    (Dense /\ pc = "done" /\ self.num_steps = 0) =>
        /\ it = 0 /\ n_randn = 0 /\ n_psi_2 = 0
        /\ S_hat = S_hat_init
        /\ S_L = S_0

\* A dense call with num_steps = 0 that returned, on a batch with padding.
C5_Witness ==
    /\ Dense /\ pc = "done" /\ self.num_steps = 0
    /\ HasPadding

\* The scorer the forward call used returns 0 for every difference
\* vector.
ZeroScorer == mlp_call.theta.w2 = 0 /\ mlp_call.theta.b2 = 0

\* C6: in dense mode, when the scorer's output is zero for every pairwise
\* difference, S_L = S_0 after any number of steps and any random draws.
C6_ZeroScorerKeepsS0 ==
    (Dense /\ pc = "done" /\ ZeroScorer) => S_L = S_0

\* A dense call with a zero scorer that returned after two refinement
\* steps on a batch whose S_0 is not constant.
C6_Witness ==
    /\ Dense /\ pc = "done" /\ ZeroScorer /\ it = 2
    /\ \E b \in DOMAIN S_0 : \E i \in DOMAIN S_0[b] :
          S_0[b][i][1] # Fin(1) /\ S_0[b][i][1] # Rat(1, 2) /\ S_0[b][i][1] # Fin(0)

\* The block of a (B x N x M) tensor at the valid rows and columns of
\* graph pair b (1-based).
Block(S, b) ==
    [i \in 1..NumNodes(inp.batch_s, b - 1) |->
        [j \in 1..NumNodes(inp.batch_t, b - 1) |-> S[b][i][j]]]

\* C7: masking isolation.  The S_0 and S_L blocks of every graph pair of
\* a batch are those of a run on that pair alone with the same random
\* features for its source nodes; a 1 x 1 pair yields [[1]] twice.
C7_MaskingIsolation ==
    (Dense /\ pc = "done") =>
        \A b \in DOMAIN solo :
            /\ Block(S_0, b) = solo[b].S_0[1]
            /\ Block(S_L, b) = solo[b].S_L[1]
            /\ (NumNodes(inp.batch_s, b - 1) = 1 /\ NumNodes(inp.batch_t, b - 1) = 1)
                  => (Block(S_0, b) = <<<<Fin(1)>>>> /\ Block(S_L, b) = <<<<Fin(1)>>>>)

\* A dense call that refined a batch of a 1 x 1 pair and a 2 x 2 pair and
\* moved the larger pair's correspondence.
C7_Witness ==
    /\ Dense /\ pc = "done" /\ it >= 1
    /\ Len(solo) = 2
    /\ \E b \in DOMAIN solo :
          NumNodes(inp.batch_s, b - 1) = 1 /\ NumNodes(inp.batch_t, b - 1) = 1
    /\ \E b \in DOMAIN solo :
          /\ NumNodes(inp.batch_s, b - 1) = 2 /\ NumNodes(inp.batch_t, b - 1) = 2
          /\ Block(S_L, b) # Block(S_0, b)

\* S_0 of the dense variant on the embeddings of the call in progress.
DenseS_0 ==
    DenseInit([h_s |-> h_s, h_s_mask |-> h_s_mask,
               h_t |-> h_t, h_t_mask |-> h_t_mask]).S_0

\* C8: when k is the full target node count, the sparse S_0 agrees with
\* the dense S_0 at the candidates: for every valid source node i and
\* slot j, sparse S_0[b][i][j] = dense S_0[b][i][c], c the candidate that
\* S_idx holds for row i and slot j.
C8_SparseDenseAgreement ==
    (Sparse /\ pc = "done" /\ self.k = Len(h_t[1])) =>
        \A b \in DOMAIN S_0 : \A i \in DOMAIN S_0[b] :
            h_s_mask[b][i] =>
                \A j \in DOMAIN S_0[b][i] :
                    S_0[b][i][j] = DenseS_0[b][i][S_idx[b][CandRow(S_idx, b, i)][j] + 1]

\* The declared widths of psi_1 and psi_2 do not all agree.
Mismatched(c) ==
    \/ c.psi_1.out_channels # c.psi_2.in_channels
    \/ c.psi_1.out_channels # c.psi_2.out_channels

\* C9: constructing a DGMC with mismatched declared widths fails at
\* construction: no object is produced.
C9_MismatchFailsConstruction ==
    Mismatched(ctor) => pc = "new"

\* C9 as amended: the constructor checks no width and never fails; it
\* stores its arguments and builds the scorer with psi_2.out_channels
\* inputs, whatever psi_1 and psi_2 declare, and no later forward call
\* fails on a width either.
C9_ConstructionNeverFails ==
    pc # "new" =>
        /\ self.psi_1 = ctor.psi_1 /\ self.psi_2 = ctor.psi_2
        /\ self.num_steps = ctor.num_steps /\ self.k = ctor.k
        /\ self.detach = ctor.detach
        /\ self.mlp.in_features = ctor.psi_2.out_channels
        /\ pc # "error_mlp"

\* A module built with mismatched widths whose dense forward call
\* returned after a refinement step.
C9_Witness ==
    /\ Mismatched(ctor)
    /\ ctor.psi_2.in_channels # ctor.psi_2.out_channels
    /\ Dense /\ pc = "done" /\ it = 1

\* C10: in dense mode the refinement steps leave S_hat at every invalid
\* cell as line 67 computed it, and never change S_mask.
C10_InvalidLogitsFrozen ==
    (Dense /\ pc \in {"dense_loop", "done"}) =>
        /\ S_mask = S_mask_init
        /\ \A c \in Cells(S_hat) :
              ~S_mask[c[1]][c[2]][c[3]] =>
                  S_hat[c[1]][c[2]][c[3]] = S_hat_init[c[1]][c[2]][c[3]]

\* Two refinement steps changed S_hat on a batch with padding.
C10_Witness ==
    /\ Dense /\ pc = "dense_loop" /\ it = 2
    /\ HasPadding
    /\ S_hat # S_hat_init
====
